---- MODULE Spec2Model ----
(***************************************************************************)
(* Model of the recipe workflow of src/logic2.py: six nodes over a shared  *)
(* RecipeState, sequenced by the graph declared in main() and by the       *)
(* router route_after_generation.                                          *)
(*                                                                         *)
(* Strings are sequences of tokens.  A token stands for a piece of text;   *)
(* the token "Error" is the only one that contains the substring "Error",  *)
(* so `"Error" in s` is membership of that token.  Optional values are     *)
(* None == <<>> or Some(v) == <<v>>.                                       *)
(***************************************************************************)
EXTENDS Integers, Sequences, FiniteSets, TLC

VARIABLES state, pc, trace, calls, save, notes, update, response, rerun

vars == <<state, pc, trace, calls, save, notes, update, response, rerun>>

(* ---------------------------- bounds ----------------------------------- *)
MaxCsv == 1
MaxText == 2
MaxExc == 1
MaxJson == 3
MaxAnswer == 1
MaxNote == 1

SeqsUpTo(S, n) == UNION {[1..k -> S] : k \in 0..n}

CsvChars == {",", " ", "a"}
Words == {"Error", "w"}
JsonChars == {"{", "}", "kv", "[]", "x", " "}
AnswerChars == {" ", "yes", "YES", "no"}
NoteChars == {" ", "w"}

CsvLines == SeqsUpTo(CsvChars, MaxCsv)
Texts == SeqsUpTo(Words, MaxText)
ExcMsgs == SeqsUpTo(Words, MaxExc)
JsonTexts == SeqsUpTo(JsonChars, MaxJson)
AnswerLines == SeqsUpTo(AnswerChars, MaxAnswer)
NoteLines == SeqsUpTo(NoteChars, MaxNote)

(* --------------------------- optional values --------------------------- *)
None == <<>>
Some(v) == <<v>>
IsNone(o) == o = <<>>
Val(o) == o[1]

\* Python truthiness of an Optional[str]: None and "" are falsy
Falsy(o) == IsNone(o) \/ Val(o) = <<>>

\* Python `a or b` on Optional[str]
OrElse(a, b) == IF Falsy(a) THEN b ELSE a

(* ------------------------------ strings -------------------------------- *)
Marker == "Error"

\* "Error" in s
HasError(s) == \E i \in DOMAIN s : s[i] = Marker

RECURSIVE LStrip(_)
LStrip(s) == IF s # <<>> /\ Head(s) = " " THEN LStrip(Tail(s)) ELSE s

RECURSIVE RStrip(_)
RStrip(s) ==
  IF s # <<>> /\ s[Len(s)] = " " THEN RStrip(SubSeq(s, 1, Len(s) - 1)) ELSE s

\* str.strip()
Strip(s) == RStrip(LStrip(s))

\* str.lower()
Lower(s) == [i \in DOMAIN s |-> IF s[i] = "YES" THEN "yes" ELSE s[i]]

\* str.split(',')
RECURSIVE Split(_)
Split(s) ==
  IF \E i \in DOMAIN s : s[i] = ","
  THEN LET i == CHOOSE k \in DOMAIN s :
                  s[k] = "," /\ \A j \in 1..(k - 1) : s[j] # ","
       IN <<SubSeq(s, 1, i - 1)>> \o Split(SubSeq(s, i + 1, Len(s)))
  ELSE <<s>>

\* [item.strip() for item in line.split(',') if item.strip()]
ParseList(line) ==
  LET parts == Split(line)
      stripped == [i \in DOMAIN parts |-> Strip(parts[i])]
  IN SelectSeq(stripped, LAMBDA x : x # <<>>)

(* ------------------------------ state ---------------------------------- *)
Fields == {"ingredients", "dietary_restrictions", "preferences",
           "generated_recipe", "adjusted_recipe", "substitutions",
           "meal_plan", "shopping_list", "feedback", "favorites",
           "user_notes"}

initial_state ==
  [ingredients |-> <<>>, dietary_restrictions |-> <<>>, preferences |-> <<>>,
   generated_recipe |-> None, adjusted_recipe |-> None,
   substitutions |-> None, meal_plan |-> None, shopping_list |-> None,
   feedback |-> None, favorites |-> <<>>, user_notes |-> None]

ListFields == {"ingredients", "dietary_restrictions", "preferences",
               "favorites"}

\* variant: the list fields are merged by concatenation (an add reducer)
Merge_AddReducer(s, u) ==
  [f \in DOMAIN s |->
     IF f \in DOMAIN u
     THEN IF f \in ListFields THEN s[f] \o u[f] ELSE u[f]
     ELSE s[f]]

\* field-level overwrite of a node's partial update into the state
Merge(s, u) == [f \in DOMAIN s |-> IF f \in DOMAIN u THEN u[f] ELSE s[f]]

(* -------------------------- completion service ------------------------- *)
\* llm.invoke either returns response.content or raises an exception e
Ok(content) == [ok |-> TRUE, content |-> content]
Fail(msg) == [ok |-> FALSE, err |-> msg]
Completions == {Ok(t) : t \in Texts} \cup {Fail(m) : m \in ExcMsgs}
JsonCompletions == {Ok(t) : t \in JsonTexts} \cup {Fail(m) : m \in ExcMsgs}

(* ------------------------------- nodes --------------------------------- *)
\* Each node operator returns the partial update the node returns and
\* `called`, whether the node invoked the completion service.

\* user_input_node: three input() lines, split on commas, trimmed, empties
\* dropped
user_input_node(s, ingredients_input, restrictions_input, preferences_input) ==
  [update |-> [ingredients |-> ParseList(ingredients_input),
               dietary_restrictions |-> ParseList(restrictions_input),
               preferences |-> ParseList(preferences_input)],
   called |-> FALSE]

NoIngredients == <<"No ingredients provided.", "Cannot generate recipe.">>
ErrGenPrefix == <<"Error", "generating recipe:">>

\* variant: the empty-ingredients path returns no field
recipe_generation_node_NoWrite(s, r) ==
  IF s.ingredients = <<>>
  THEN [update |-> <<>>, called |-> FALSE]
  ELSE IF r.ok
       THEN [update |-> [generated_recipe |-> Some(r.content)],
             called |-> TRUE]
       ELSE [update |-> [generated_recipe |-> Some(ErrGenPrefix \o r.err)],
             called |-> TRUE]

\* variant: the empty-ingredients guard is missing
recipe_generation_node_NoGuard(s, r) ==
  IF r.ok
  THEN [update |-> [generated_recipe |-> Some(r.content)], called |-> TRUE]
  ELSE [update |-> [generated_recipe |-> Some(ErrGenPrefix \o r.err)],
        called |-> TRUE]

\* variant: the caught failure is stored without the "Error ..." prefix
recipe_generation_node_NoPrefix(s, r) ==
  IF s.ingredients = <<>>
  THEN [update |-> [generated_recipe |-> Some(NoIngredients)],
        called |-> FALSE]
  ELSE IF r.ok
       THEN [update |-> [generated_recipe |-> Some(r.content)],
             called |-> TRUE]
       ELSE [update |-> [generated_recipe |-> Some(r.err)],
             called |-> TRUE]

\* recipe_generation_node; r is the outcome of llm.invoke when it is called
recipe_generation_node(s, r) ==
  IF s.ingredients = <<>>
  THEN [update |-> [generated_recipe |-> Some(NoIngredients)],
        called |-> FALSE]
  ELSE IF r.ok
       THEN [update |-> [generated_recipe |-> Some(r.content)],
             called |-> TRUE]
       ELSE [update |-> [generated_recipe |-> Some(ErrGenPrefix \o r.err)],
             called |-> TRUE]

ErrAdjPrefix == <<"Error", "adjusting recipe:">>

\* variant: the adjusted text also replaces generated_recipe
diet_adjustment_node_Overwrite(s, r) ==
  LET original_recipe == s.generated_recipe
  IN IF \/ Falsy(original_recipe)
        \/ HasError(Val(original_recipe))
        \/ s.dietary_restrictions = <<>>
     THEN [update |-> [adjusted_recipe |-> original_recipe],
           called |-> FALSE]
     ELSE IF r.ok
          THEN [update |-> [adjusted_recipe |-> Some(r.content),
                            generated_recipe |-> Some(r.content)],
                called |-> TRUE]
          ELSE [update |-> [adjusted_recipe |-> original_recipe],
                called |-> TRUE]

\* variant: the caught failure stores error_message instead of falling back
diet_adjustment_node_ErrorOnFail(s, r) ==
  LET original_recipe == s.generated_recipe
  IN IF \/ Falsy(original_recipe)
        \/ HasError(Val(original_recipe))
        \/ s.dietary_restrictions = <<>>
     THEN [update |-> [adjusted_recipe |-> original_recipe],
           called |-> FALSE]
     ELSE IF r.ok
          THEN [update |-> [adjusted_recipe |-> Some(r.content)],
                called |-> TRUE]
          ELSE [update |-> [adjusted_recipe |-> Some(ErrAdjPrefix \o r.err)],
                called |-> TRUE]

\* diet_adjustment_node
diet_adjustment_node(s, r) ==
  LET original_recipe == s.generated_recipe
  IN IF \/ Falsy(original_recipe)
        \/ HasError(Val(original_recipe))
        \/ s.dietary_restrictions = <<>>
     THEN [update |-> [adjusted_recipe |-> original_recipe],
           called |-> FALSE]
     ELSE IF r.ok
          THEN [update |-> [adjusted_recipe |-> Some(r.content)],
                called |-> TRUE]
          ELSE [update |-> [adjusted_recipe |-> original_recipe],
                called |-> TRUE]

(* json.loads on a token string.  Tokens: "{" "}" braces, "kv" the pair     *)
(* "ingredient": "substitute", "[]" a JSON array, "x" text that is not     *)
(* JSON, " " whitespace (insignificant between JSON tokens).               *)
JsonLoads(c) ==
  LET t == SelectSeq(c, LAMBDA ch : ch # " ")
  IN IF t = <<"{", "}">> THEN [kind |-> "dict", val |-> <<>>]
     ELSE IF t = <<"{", "kv", "}">>
          THEN [kind |-> "dict",
                val |-> [k \in {"ingredient"} |-> <<"substitute">>]]
     ELSE IF t = <<"[]">> THEN [kind |-> "list", val |-> <<>>]
     ELSE [kind |-> "JSONDecodeError", val |-> <<>>]

\* variant: a non-greedy pattern, from the first "{" to the first "}" after it
JsonMatch_NonGreedy(c) ==
  LET opens == {i \in DOMAIN c : c[i] = "{"}
      closes == {j \in DOMAIN c : c[j] = "}"}
  IN IF opens = {} THEN None
     ELSE LET i == CHOOSE k \in opens : \A m \in opens : k <= m
              after == {j \in closes : j > i}
          IN IF after = {} THEN None
             ELSE LET j == CHOOSE k \in after : \A m \in after : k <= m
                  IN Some(SubSeq(c, i, j))

\* re.search(r'\{.*\}', content, re.DOTALL): greedy span from the first "{"
\* to the last "}" after it; None when there is no such span
JsonMatch(c) ==
  LET opens == {i \in DOMAIN c : c[i] = "{"}
      closes == {j \in DOMAIN c : c[j] = "}"}
  IN IF opens = {} THEN None
     ELSE LET i == CHOOSE k \in opens : \A m \in opens : k <= m
              after == {j \in closes : j > i}
          IN IF after = {} THEN None
             ELSE LET j == CHOOSE k \in after : \A m \in after : m <= k
                  IN Some(SubSeq(c, i, j))

ErrorDict(msg) == [k \in {"error"} |-> msg]
CouldNotParse == <<"Could not parse JSON from response">>
NoJsonFound == <<"No JSON found in response">>
FailedPrefix == <<"Failed to extract substitutions:">>
NoItemsAttr == <<"'list' object has no attribute 'items'">>

\* the two-tier parse of ingredient_substitution_node, lines 173-189
ParseSubstitutions(response_content) ==
  LET content == Strip(response_content)
      direct == JsonLoads(content)
  IN IF direct.kind # "JSONDecodeError" THEN direct
     ELSE LET json_match == JsonMatch(content)
          IN IF IsNone(json_match)
             THEN [kind |-> "dict", val |-> ErrorDict(NoJsonFound)]
             ELSE LET inner == JsonLoads(Val(json_match))
                  IN IF inner.kind # "JSONDecodeError" THEN inner
                     ELSE [kind |-> "dict",
                           val |-> ErrorDict(CouldNotParse)]

\* ingredient_substitution_node; a parsed value without .items() raises
\* AttributeError at line 192, caught by the outer except
ingredient_substitution_node(s, r) ==
  LET recipe_text == OrElse(s.adjusted_recipe, s.generated_recipe)
  IN IF Falsy(recipe_text) \/ HasError(Val(recipe_text))
     THEN [update |-> [substitutions |-> Some(<<>>)], called |-> FALSE]
     ELSE IF r.ok
          THEN LET substitutions == ParseSubstitutions(r.content)
               IN IF substitutions.kind = "dict"
                  THEN [update |-> [substitutions |-> Some(substitutions.val)],
                        called |-> TRUE]
                  ELSE [update |->
                          [substitutions |->
                             Some(ErrorDict(FailedPrefix \o NoItemsAttr))],
                        called |-> TRUE]
          ELSE [update |->
                  [substitutions |-> Some(ErrorDict(FailedPrefix \o r.err))],
                called |-> TRUE]

\* feedback_node
feedback_node(s, feedback_input) ==
  [update |-> [feedback |-> Some(Strip(feedback_input))], called |-> FALSE]

\* variant: the validity test of the chosen recipe is missing
storage_node_NoCheck(s, save_input, notes_input) ==
  LET recipe == OrElse(s.adjusted_recipe, s.generated_recipe)
      sv == Lower(Strip(save_input))
      nt == Strip(notes_input)
      favorites == IF sv = <<"yes">>
                   THEN Append(s.favorites,
                               IF IsNone(recipe) THEN <<>> ELSE Val(recipe))
                   ELSE s.favorites
  IN [update |-> [favorites |-> favorites,
                  user_notes |-> Some(IF nt # <<>> THEN nt ELSE <<>>)],
      called |-> FALSE, prompted |-> TRUE,
      save |-> Some(sv), notes |-> Some(nt)]

\* variant: saves unless the answer is "no"
storage_node_UnlessNo(s, save_input, notes_input) ==
  LET recipe == OrElse(s.adjusted_recipe, s.generated_recipe)
  IN IF Falsy(recipe) \/ HasError(Val(recipe))
     THEN [update |-> [favorites |-> s.favorites, user_notes |-> Some(<<>>)],
           called |-> FALSE, prompted |-> FALSE,
           save |-> None, notes |-> None]
     ELSE LET sv == Lower(Strip(save_input))
              nt == Strip(notes_input)
              favorites == IF sv # <<"no">>
                           THEN Append(s.favorites, Val(recipe))
                           ELSE s.favorites
          IN [update |-> [favorites |-> favorites,
                          user_notes |-> Some(IF nt # <<>> THEN nt ELSE <<>>)],
              called |-> FALSE, prompted |-> TRUE,
              save |-> Some(sv), notes |-> Some(nt)]

\* storage_node; `prompted` tells whether the two input() calls happened,
\* `save` and `notes` are the node's locals when they did
storage_node(s, save_input, notes_input) ==
  LET recipe == OrElse(s.adjusted_recipe, s.generated_recipe)
  IN IF Falsy(recipe) \/ HasError(Val(recipe))
     THEN [update |-> [favorites |-> s.favorites, user_notes |-> Some(<<>>)],
           called |-> FALSE, prompted |-> FALSE,
           save |-> None, notes |-> None]
     ELSE LET sv == Lower(Strip(save_input))
              nt == Strip(notes_input)
              favorites == IF sv = <<"yes">>
                           THEN Append(s.favorites, Val(recipe))
                           ELSE s.favorites
          IN [update |-> [favorites |-> favorites,
                          user_notes |-> Some(IF nt # <<>> THEN nt ELSE <<>>)],
              called |-> FALSE, prompted |-> TRUE,
              save |-> Some(sv), notes |-> Some(nt)]

(* ------------------------------- graph --------------------------------- *)
Nodes == {"UserInputNode", "RecipeGenerationNode", "DietAdjustmentNode",
          "IngredientSubstitutionNode", "FeedbackNode", "StorageNode"}
END == "END"
entry_point == "UserInputNode"

\* variant: StorageNode leads back to FeedbackNode
Edges_Cycle == {<<"UserInputNode", "RecipeGenerationNode">>,
                <<"DietAdjustmentNode", "IngredientSubstitutionNode">>,
                <<"IngredientSubstitutionNode", "FeedbackNode">>,
                <<"FeedbackNode", "StorageNode">>,
                <<"StorageNode", "FeedbackNode">>}

\* variant: RecipeGenerationNode has an unconditional edge besides its router
Edges_Both == {<<"UserInputNode", "RecipeGenerationNode">>,
               <<"RecipeGenerationNode", "FeedbackNode">>,
               <<"DietAdjustmentNode", "IngredientSubstitutionNode">>,
               <<"IngredientSubstitutionNode", "FeedbackNode">>,
               <<"FeedbackNode", "StorageNode">>,
               <<"StorageNode", "END">>}

\* variant: FeedbackNode leads straight to END
Edges_SkipStorage == {<<"UserInputNode", "RecipeGenerationNode">>,
                      <<"DietAdjustmentNode", "IngredientSubstitutionNode">>,
                      <<"IngredientSubstitutionNode", "FeedbackNode">>,
                      <<"FeedbackNode", "END">>,
                      <<"StorageNode", "END">>}

\* graph.add_edge(...) in main()
Edges == {<<"UserInputNode", "RecipeGenerationNode">>,
          <<"DietAdjustmentNode", "IngredientSubstitutionNode">>,
          <<"IngredientSubstitutionNode", "FeedbackNode">>,
          <<"FeedbackNode", "StorageNode">>,
          <<"StorageNode", END>>}

\* graph.add_conditional_edges("RecipeGenerationNode", ..., {...})
ConditionalSource == "RecipeGenerationNode"
PathMap == [n \in {"DietAdjustmentNode", "IngredientSubstitutionNode",
                   "FeedbackNode"} |-> n]

\* variant: the marker test is missing
route_after_generation_NoErrorCheck(s) ==
  IF s.dietary_restrictions # <<>> THEN "DietAdjustmentNode"
  ELSE "IngredientSubstitutionNode"

\* variant: a clean recipe always goes straight to substitutions
route_after_generation_SkipDiet(s) ==
  LET recipe == s.generated_recipe
  IN IF IsNone(recipe) THEN "TypeError"
     ELSE IF HasError(Val(recipe)) THEN "FeedbackNode"
     ELSE "IngredientSubstitutionNode"

\* variant: on a generation error the router names a node that is not in
\* the path map
route_after_generation_Unmapped(s) ==
  LET recipe == s.generated_recipe
  IN IF IsNone(recipe) THEN "TypeError"
     ELSE IF HasError(Val(recipe)) THEN "StorageNode"
     ELSE IF s.dietary_restrictions # <<>> THEN "DietAdjustmentNode"
     ELSE "IngredientSubstitutionNode"

\* route_after_generation; `"Error" in None` raises TypeError
route_after_generation(s) ==
  LET recipe == s.generated_recipe
  IN IF IsNone(recipe) THEN "TypeError"
     ELSE IF HasError(Val(recipe)) THEN "FeedbackNode"
     ELSE IF s.dietary_restrictions # <<>> THEN "DietAdjustmentNode"
     ELSE "IngredientSubstitutionNode"

\* the executor's choice of the node after `node`, on the merged state s;
\* "FAULT" when the router raises or returns a name outside the path map
NextNode(node, s) ==
  IF node = ConditionalSource
  THEN LET dest == route_after_generation(s)
       IN IF dest \in DOMAIN PathMap THEN PathMap[dest] ELSE "FAULT"
  ELSE (CHOOSE e \in Edges : e[1] = node)[2]

(* ------------------------------ executor ------------------------------- *)
\* `rerun` is written only under RerunSpec, where every node is executed a
\* second time with the same collaborator answers.  It keeps, for the node
\* just executed on record s with update u1, the record after one execution
\* and merge (once), after a second merge of the update the node returns on
\* the same input record (same), and after a second execution on the merged
\* record, update u2 (merged)
NoRerun == [node |-> "none", once |-> initial_state, same |-> initial_state,
            merged |-> initial_state]

Again(node, s, u1, u2) ==
  \E once \in {Merge(s, u1)} :
    rerun' = [node |-> node,
              once |-> once,
              same |-> Merge(once, u1),
              merged |-> Merge(once, u2)]

Observe(twice, node, s, u1, u2) ==
  IF twice THEN Again(node, s, u1, u2) ELSE UNCHANGED rerun

Init ==
  /\ state = initial_state
  /\ pc = entry_point
  /\ trace = <<>>
  /\ calls = <<>>
  /\ save = None
  /\ notes = None
  /\ update = <<>>
  /\ response = None
  /\ rerun = NoRerun

\* run node `node` with result `res`: merge its update, log its call to the
\* completion service (ok or failed), route; `update` keeps the partial
\* update the node returned
Step(node, res, ok) ==
  /\ state' = Merge(state, res.update)
  /\ update' = res.update
  /\ trace' = Append(trace, node)
  /\ calls' = IF res.called
              THEN Append(calls, [node |-> node, ok |-> ok])
              ELSE calls
  /\ pc' = NextNode(node, state')

UserInputStep(twice) ==
  /\ pc = "UserInputNode"
  /\ \E i \in CsvLines, d \in CsvLines, p \in CsvLines :
       \E res \in {user_input_node(state, i, d, p)} :
         /\ Step("UserInputNode", res, TRUE)
         /\ Observe(twice, "UserInputNode", state, res.update,
                    user_input_node(Merge(state, res.update), i, d, p).update)
  /\ UNCHANGED <<save, notes, response>>

RecipeGenerationStep(twice) ==
  /\ pc = "RecipeGenerationNode"
  /\ \E r \in Completions :
       \E res \in {recipe_generation_node(state, r)} :
         /\ Step("RecipeGenerationNode", res, r.ok)
         /\ Observe(twice, "RecipeGenerationNode", state, res.update,
                    recipe_generation_node(Merge(state, res.update),
                                           r).update)
  /\ UNCHANGED <<save, notes, response>>

DietAdjustmentStep(twice) ==
  /\ pc = "DietAdjustmentNode"
  /\ \E r \in Completions :
       \E res \in {diet_adjustment_node(state, r)} :
         /\ Step("DietAdjustmentNode", res, r.ok)
         /\ Observe(twice, "DietAdjustmentNode", state, res.update,
                    diet_adjustment_node(Merge(state, res.update), r).update)
  /\ UNCHANGED <<save, notes, response>>

IngredientSubstitutionStep(twice) ==
  /\ pc = "IngredientSubstitutionNode"
  /\ \E r \in JsonCompletions :
       \E res \in {ingredient_substitution_node(state, r)} :
         /\ Step("IngredientSubstitutionNode", res, r.ok)
         /\ Observe(twice, "IngredientSubstitutionNode", state, res.update,
                    ingredient_substitution_node(Merge(state, res.update),
                                                 r).update)
  /\ UNCHANGED <<save, notes, response>>

FeedbackStep(twice) ==
  /\ pc = "FeedbackNode"
  /\ \E f \in NoteLines :
       \E res \in {feedback_node(state, f)} :
         /\ Step("FeedbackNode", res, TRUE)
         /\ Observe(twice, "FeedbackNode", state, res.update,
                    feedback_node(Merge(state, res.update), f).update)
  /\ UNCHANGED <<save, notes, response>>

StorageStep(twice) ==
  /\ pc = "StorageNode"
  /\ \E a \in AnswerLines, n \in NoteLines :
       \E res \in {storage_node(state, a, n)} :
         /\ Step("StorageNode", res, TRUE)
         /\ Observe(twice, "StorageNode", state, res.update,
                    storage_node(Merge(state, res.update), a, n).update)
         /\ save' = res.save
         /\ notes' = res.notes
  /\ UNCHANGED response

UserInputNode == UserInputStep(FALSE)
RecipeGenerationNode == RecipeGenerationStep(FALSE)
DietAdjustmentNode == DietAdjustmentStep(FALSE)
IngredientSubstitutionNode == IngredientSubstitutionStep(FALSE)
FeedbackNode == FeedbackStep(FALSE)
StorageNode == StorageStep(FALSE)

Next ==
  \/ UserInputNode
  \/ RecipeGenerationNode
  \/ DietAdjustmentNode
  \/ IngredientSubstitutionNode
  \/ FeedbackNode
  \/ StorageNode

Spec == Init /\ [][Next]_vars

\* app.invoke runs the nodes synchronously one after another: a node that is
\* due is run
FairSpec == Spec /\ WF_vars(Next)

\* the same workflow with every node executed and merged a second time
UserInputTwice == UserInputStep(TRUE)
RecipeGenerationTwice == RecipeGenerationStep(TRUE)
DietAdjustmentTwice == DietAdjustmentStep(TRUE)
IngredientSubstitutionTwice == IngredientSubstitutionStep(TRUE)
FeedbackTwice == FeedbackStep(TRUE)
StorageTwice == StorageStep(TRUE)

RerunNext ==
  \/ UserInputTwice
  \/ RecipeGenerationTwice
  \/ DietAdjustmentTwice
  \/ IngredientSubstitutionTwice
  \/ FeedbackTwice
  \/ StorageTwice

RerunSpec == Init /\ [][RerunNext]_vars

(* ----------------- ingredient_substitution_node alone ------------------ *)
\* The substitution node run on a record that holds a successful recipe,
\* for every outcome of its llm.invoke call; `response` keeps that outcome.
CleanTexts == {t \in Texts : t # <<>> /\ ~HasError(t)}

ParseInit ==
  \E t \in CleanTexts, r \in JsonCompletions :
    /\ state = [initial_state EXCEPT !.ingredients = <<<<"a">>>>,
                                     !.generated_recipe = Some(t)]
    /\ pc = "IngredientSubstitutionNode"
    /\ trace = <<"UserInputNode", "RecipeGenerationNode">>
    /\ calls = <<[node |-> "RecipeGenerationNode", ok |-> TRUE]>>
    /\ save = None
    /\ notes = None
    /\ update = [generated_recipe |-> Some(t)]
    /\ response = r
    /\ rerun = NoRerun

ParseSubstitution ==
  /\ pc = "IngredientSubstitutionNode"
  /\ Step("IngredientSubstitutionNode",
          ingredient_substitution_node(state, response), response.ok)
  /\ UNCHANGED <<save, notes, response, rerun>>

ParseSpec == ParseInit /\ [][ParseSubstitution]_vars

(* ------------------------- observation helpers ------------------------- *)
Gen == "RecipeGenerationNode"
Diet == "DietAdjustmentNode"
Subst == "IngredientSubstitutionNode"

Ran(n) == \E i \in DOMAIN trace : trace[i] = n
Called(n) == \E i \in DOMAIN calls : calls[i].node = n
FailedCall(n) == \E i \in DOMAIN calls : calls[i].node = n /\ ~calls[i].ok
CallCount(n) == Cardinality({i \in DOMAIN calls : calls[i].node = n})
AllCallsFailed == \A i \in DOMAIN calls : ~calls[i].ok

\* node n is the one executed (or due) immediately after RecipeGenerationNode
AfterGen(n) ==
  \A i \in DOMAIN trace :
    trace[i] = Gen => IF i < Len(trace) THEN trace[i + 1] = n ELSE pc = n

\* generated_recipe has been written and holds / does not hold the marker
GenError == Ran(Gen) /\ HasError(Val(state.generated_recipe))
GenClean == Ran(Gen) /\ ~HasError(Val(state.generated_recipe))

\* the recipe text storage_node and ingredient_substitution_node choose
Chosen(s) == OrElse(s.adjusted_recipe, s.generated_recipe)

IsPrefix(a, b) == Len(a) <= Len(b) /\ SubSeq(b, 1, Len(a)) = a

(* ------------------------------- claims -------------------------------- *)

\* C1: in every run in which the ingredients list is empty, the final
\* generated_recipe is the fixed diagnostic and the completion service is
\* not invoked by any step at any point of the run.
C1_EmptyIngredientsNeverCall ==
  (Ran("UserInputNode") /\ state.ingredients = <<>>) =>
     /\ calls = <<>>
     /\ (pc = END => state.generated_recipe = Some(NoIngredients))

\* C2: in every run in which the ingredients list is empty, the final
\* favorites is empty whatever the answer to the save prompt.
C2_EmptyIngredientsNoFavorite ==
  (pc = END /\ state.ingredients = <<>>) => state.favorites = <<>>

\* C3: when generated_recipe as written by RecipeGenerationNode contains
\* the marker, FeedbackNode is the node immediately after
\* RecipeGenerationNode, neither DietAdjustmentNode nor
\* IngredientSubstitutionNode executes, and adjusted_recipe and substitutions
\* keep their initial value None up to and in the final record.
C3_ErrorRoutesToFeedback ==
  GenError =>
     /\ AfterGen("FeedbackNode")
     /\ ~Ran(Diet) /\ ~Ran(Subst)
     /\ pc \notin {Diet, Subst}
     /\ state.adjusted_recipe = None
     /\ state.substitutions = None

C3_Witness ==
  /\ pc = END
  /\ GenError
  /\ Called(Gen) /\ ~FailedCall(Gen)
  /\ state.dietary_restrictions # <<>>

\* C4: when generated_recipe does not contain the marker and
\* dietary_restrictions is non-empty, DietAdjustmentNode is the node
\* immediately after RecipeGenerationNode, and
\* IngredientSubstitutionNode runs only after DietAdjustmentNode has run.
C4_RestrictionsRouteToDiet ==
  (GenClean /\ state.dietary_restrictions # <<>>) =>
     /\ AfterGen(Diet)
     /\ \A i \in DOMAIN trace :
          trace[i] = Subst => \E j \in 1..(i - 1) : trace[j] = Diet
     /\ (pc = Subst => Ran(Diet))

C4_Witness ==
  /\ pc = END
  /\ GenClean
  /\ state.dietary_restrictions # <<>>
  /\ Called(Diet) /\ Ran(Subst)
  /\ state.ingredients # <<>>

\* C5: when generated_recipe does not contain the marker and
\* dietary_restrictions is empty, IngredientSubstitutionNode is the node
\* immediately after RecipeGenerationNode, DietAdjustmentNode never runs,
\* the completion service is called exactly once for generation and at most
\* once for substitutions, and the final record has adjusted_recipe None and
\* substitutions a mapping.
C5_NoRestrictionsRouteToSubst ==
  (pc = END /\ GenClean /\ state.dietary_restrictions = <<>>) =>
     /\ AfterGen(Subst)
     /\ ~Ran(Diet)
     /\ CallCount(Gen) = 1
     /\ CallCount(Subst) <= 1
     /\ state.adjusted_recipe = None
     /\ state.substitutions # None

\* C6: every run, whatever the inputs and whatever calls fail or return
\* malformed text, eventually reaches END, and no node or router faults.
C6_AlwaysReachesEnd == <>(pc = END) /\ [](pc # "FAULT")

C6_Witness ==
  /\ pc = END
  /\ Len(calls) = 2
  /\ AllCallsFailed
  /\ Ran("StorageNode")

\* C7: in every run in which every call to the completion service fails,
\* generated_recipe contains the marker, the router sends execution from
\* RecipeGenerationNode to FeedbackNode, and the final favorites is empty.
C7_AllFailNoFavorite ==
  (pc = END /\ AllCallsFailed) =>
     /\ GenError
     /\ AfterGen("FeedbackNode")
     /\ state.favorites = <<>>

\* some value of the substitutions mapping contains the marker
SubstHasError ==
  /\ state.substitutions # None
  /\ \E k \in DOMAIN Val(state.substitutions) :
       HasError(Val(state.substitutions)[k])

\* C8 (as stated): whenever the call of RecipeGenerationNode,
\* DietAdjustmentNode or IngredientSubstitutionNode fails, the node's own
\* output field holds a diagnostic containing the marker "Error".
C8_EveryFailureWritesMarker ==
  /\ FailedCall(Gen) => HasError(Val(state.generated_recipe))
  /\ FailedCall(Diet) =>
       (~IsNone(state.adjusted_recipe) /\ HasError(Val(state.adjusted_recipe)))
  /\ FailedCall(Subst) => SubstHasError

\* C8 (amended): a failed call is caught in every node; RecipeGenerationNode
\* writes "Error generating recipe: <e>", which contains the marker;
\* DietAdjustmentNode writes the unadjusted generated_recipe, which does not
\* contain the marker; IngredientSubstitutionNode writes the one-key mapping
\* error -> "Failed to extract substitutions: <e>", which contains the
\* marker only if the failure's message <e> does.
C8_FailureHandling ==
  /\ pc # "FAULT"
  /\ FailedCall(Gen) =>
       /\ HasError(Val(state.generated_recipe))
       /\ IsPrefix(ErrGenPrefix, Val(state.generated_recipe))
  /\ FailedCall(Diet) =>
       /\ state.adjusted_recipe = state.generated_recipe
       /\ ~HasError(Val(state.adjusted_recipe))
  /\ FailedCall(Subst) =>
       /\ DOMAIN Val(state.substitutions) = {"error"}
       /\ IsPrefix(FailedPrefix, Val(state.substitutions)["error"])
       /\ SubstHasError <=>
            HasError(SubSeq(Val(state.substitutions)["error"],
                            Len(FailedPrefix) + 1,
                            Len(Val(state.substitutions)["error"])))

C8_Witness ==
  /\ pc = "FeedbackNode"
  /\ FailedCall(Gen)
  /\ state.dietary_restrictions # <<>>

\* C9: when DietAdjustmentNode's call fails, the node writes adjusted_recipe
\* equal to the current generated_recipe and leaves generated_recipe
\* unchanged; from then on the chosen recipe text (adjusted if present, else
\* generated) is the generated text, free of the marker, and it is what a
\* "yes" saves.
C9_DietFailureKeepsRecipe ==
  /\ [][(pc = Diet /\ Len(calls') > Len(calls) /\ ~calls'[Len(calls')].ok) =>
          /\ state'.adjusted_recipe = state.generated_recipe
          /\ state'.generated_recipe = state.generated_recipe]_vars
  /\ [](FailedCall(Diet) =>
          /\ Chosen(state) = state.generated_recipe
          /\ ~HasError(Val(Chosen(state)))
          /\ (save = Some(<<"yes">>) =>
                state.favorites = <<Val(state.generated_recipe)>>))

C9_Witness ==
  /\ pc = END
  /\ FailedCall(Diet)
  /\ ~FailedCall(Gen) /\ Called(Gen)
  /\ state.favorites # <<>>

\* C10: when storage_node asks, it appends exactly the chosen recipe text
\* to favorites if and only if the (trimmed, lower-cased) answer is "yes",
\* leaves favorites unchanged for any other answer, and sets user_notes to
\* the (trimmed) notes whatever the answer; favorites only ever grows at
\* its end.
C10_StorageAppendsOnYes ==
  [][/\ IsPrefix(state.favorites, state'.favorites)
     /\ (pc = "StorageNode" /\ save' # None) =>
          /\ (save' = Some(<<"yes">>) <=>
                state'.favorites =
                  Append(state.favorites, Val(Chosen(state))))
          /\ (save' # Some(<<"yes">>) =>
                state'.favorites = state.favorites)
          /\ state'.user_notes = notes']_vars

C10_Witness ==
  /\ pc = END
  /\ save = Some(<<"no">>)
  /\ state.user_notes = Some(<<"w">>)
  /\ state.favorites = <<>>

\* the span from the first "{" to the last "}" of c, when the last "}" comes
\* after the first "{"
GreedySpan(c) ==
  LET opens == {i \in DOMAIN c : c[i] = "{"}
      closes == {j \in DOMAIN c : c[j] = "}"}
  IN IF opens # {} /\ closes # {}
        /\ (CHOOSE i \in opens : \A m \in opens : i <= m)
             < (CHOOSE j \in closes : \A m \in closes : m <= j)
     THEN Some(SubSeq(c, CHOOSE i \in opens : \A m \in opens : i <= m,
                         CHOOSE j \in closes : \A m \in closes : m <= j))
     ELSE None

IsMapping(v) == \A k \in DOMAIN v : k \in STRING

Parsed == pc = "FeedbackNode" /\ response.ok

\* C11 (as stated): the substitutions written for a response are: the parse
\* of the whole trimmed response when it parses as JSON; otherwise the parse
\* of the greedy span from the first "{" to the last "}"; otherwise a
\* mapping with the single key "error"; always a mapping; and the response
\* {"ingredient": "substitute"} gives the one-entry mapping.
C11_TwoTierPolicy ==
  Parsed =>
    LET content == Strip(response.content)
        direct == JsonLoads(content)
        span == GreedySpan(content)
        subs == Val(state.substitutions)
    IN /\ IsMapping(subs)
       /\ direct.kind # "JSONDecodeError" => subs = direct.val
       /\ (direct.kind = "JSONDecodeError" /\ span # None
             /\ JsonLoads(Val(span)).kind # "JSONDecodeError") =>
            subs = JsonLoads(Val(span)).val
       /\ (direct.kind = "JSONDecodeError"
             /\ (span = None \/ JsonLoads(Val(span)).kind = "JSONDecodeError"))
            => DOMAIN subs = {"error"}
       /\ content = <<"{", "kv", "}">> =>
            subs = [k \in {"ingredient"} |-> <<"substitute">>]

\* C11 (amended): as stated, except that the parse of the whole trimmed
\* response is used only when it is a JSON object; when it is JSON of
\* another kind, substitutions is the one-key mapping error -> "Failed to
\* extract substitutions: ...".
C11_TwoTierPolicyObjects ==
  /\ pc \in {"IngredientSubstitutionNode", "FeedbackNode"}
  /\ Parsed =>
       LET content == Strip(response.content)
           direct == JsonLoads(content)
           span == GreedySpan(content)
           subs == Val(state.substitutions)
       IN /\ IsMapping(subs)
          /\ direct.kind = "dict" => subs = direct.val
          /\ direct.kind = "list" =>
               /\ DOMAIN subs = {"error"}
               /\ IsPrefix(FailedPrefix, subs["error"])
          /\ (direct.kind = "JSONDecodeError" /\ span # None
                /\ JsonLoads(Val(span)).kind # "JSONDecodeError") =>
               subs = JsonLoads(Val(span)).val
          /\ (direct.kind = "JSONDecodeError"
                /\ (span = None
                      \/ JsonLoads(Val(span)).kind = "JSONDecodeError"))
               => DOMAIN subs = {"error"}
          /\ content = <<"{", "kv", "}">> =>
               subs = [k \in {"ingredient"} |-> <<"substitute">>]

C11_Witness ==
  /\ Parsed
  /\ JsonLoads(Strip(response.content)).kind = "JSONDecodeError"
  /\ GreedySpan(Strip(response.content)) # None
  /\ state.substitutions = Some(<<>>)

\* C12: RecipeGenerationNode run on a record with an empty ingredients list
\* makes no call to the completion service and returns a partial update
\* whose only field is generated_recipe, set to the fixed diagnostic,
\* whatever dietary_restrictions and preferences are.
C12_EmptyIngredientsShortCircuit ==
  [][(pc = Gen /\ state.ingredients = <<>>) =>
       /\ calls' = calls
       /\ DOMAIN update' = {"generated_recipe"}
       /\ update'.generated_recipe = Some(NoIngredients)
       /\ state'.generated_recipe = Some(NoIngredients)]_vars

C12_Witness ==
  /\ Len(trace) = 2 /\ trace[2] = Gen
  /\ state.ingredients = <<>>
  /\ state.dietary_restrictions # <<>>
  /\ state.preferences # <<>>
  /\ calls = <<>>
  /\ DOMAIN update = {"generated_recipe"}

Count(n) == Cardinality({i \in DOMAIN trace : trace[i] = n})

\* C13: every run executes each node at most once, hence at most six node
\* invocations in total; no node is re-entered.
C13_EachNodeAtMostOnce ==
  /\ \A n \in Nodes : Count(n) <= 1
  /\ Len(trace) <= Cardinality(Nodes)
  /\ \A i \in DOMAIN trace : trace[i] \in Nodes
  /\ pc \in Nodes => ~Ran(pc)

C13_Witness ==
  /\ pc = END
  /\ Len(trace) = Cardinality(Nodes)
  /\ \A n \in Nodes : Count(n) = 1

\* number of ways out of node n in the declared graph
WaysOut(n) ==
  Cardinality({e \in Edges : e[1] = n})
    + (IF n = ConditionalSource THEN 1 ELSE 0)

RouterDestinations ==
  {"DietAdjustmentNode", "IngredientSubstitutionNode", "FeedbackNode"}

\* C14: each of the six nodes has exactly one way out, one unconditional
\* edge or the router, never both and never neither; every edge endpoint
\* and router destination is a registered node or END; and the router only
\* returns DietAdjustmentNode, IngredientSubstitutionNode or FeedbackNode.
C14_OneWayOut ==
  /\ Cardinality(Nodes) = 6
  /\ \A n \in Nodes : WaysOut(n) = 1
  /\ \A e \in Edges : e[1] \in Nodes /\ e[2] \in Nodes \cup {END}
  /\ ConditionalSource \in Nodes
  /\ DOMAIN PathMap = RouterDestinations
  /\ \A k \in DOMAIN PathMap : PathMap[k] \in Nodes \cup {END}
  /\ Ran(Gen) => route_after_generation(state) \in RouterDestinations
  /\ pc \in Nodes \cup {END}

C14_Witness ==
  /\ Len(trace) = 2 /\ trace[2] = Gen
  /\ pc = Diet
  /\ route_after_generation(state) = Diet

\* C17: the first two nodes executed are UserInputNode then
\* RecipeGenerationNode; in a finished run FeedbackNode and StorageNode each
\* ran exactly once, FeedbackNode before StorageNode, StorageNode last; and
\* DietAdjustmentNode precedes IngredientSubstitutionNode when both run.
C17_NodeOrder ==
  /\ Len(trace) >= 1 => trace[1] = "UserInputNode"
  /\ Len(trace) >= 2 => trace[2] = Gen
  /\ Count("FeedbackNode") <= 1 /\ Count("StorageNode") <= 1
  /\ \A i, j \in DOMAIN trace :
       (trace[i] = "StorageNode" /\ trace[j] = "FeedbackNode") => j < i
  /\ \A i, j \in DOMAIN trace :
       (trace[i] = Diet /\ trace[j] = Subst) => i < j
  /\ Ran("StorageNode") => pc = END /\ trace[Len(trace)] = "StorageNode"
  /\ pc = END =>
       /\ Count("FeedbackNode") = 1 /\ Count("StorageNode") = 1
       /\ trace[Len(trace)] = "StorageNode"
       /\ trace[Len(trace) - 1] = "FeedbackNode"

C17_Witness ==
  /\ pc = END
  /\ Ran(Diet) /\ Ran(Subst)
  /\ trace[Len(trace)] = "StorageNode"

\* C18: whenever the router has been evaluated, generated_recipe had been
\* overwritten with a string by RecipeGenerationNode (short-circuit, success
\* or caught failure), so the router's substring test never faults.
C18_RouterSeesString ==
  /\ Ran(Gen) => ~IsNone(state.generated_recipe)
  /\ Ran(Gen) => route_after_generation(state) # "TypeError"
  /\ pc # "FAULT"

C18_Witness ==
  /\ Len(trace) = 2 /\ trace[2] = Gen
  /\ state.ingredients = <<>>
  /\ state.generated_recipe = Some(NoIngredients)
  /\ pc = Subst

\* the fields each node returns
Out(n) ==
  CASE n = "UserInputNode" ->
         {"ingredients", "dietary_restrictions", "preferences"}
    [] n = "RecipeGenerationNode" -> {"generated_recipe"}
    [] n = "DietAdjustmentNode" -> {"adjusted_recipe"}
    [] n = "IngredientSubstitutionNode" -> {"substitutions"}
    [] n = "FeedbackNode" -> {"feedback"}
    [] n = "StorageNode" -> {"favorites", "user_notes"}
    [] OTHER -> {}

\* C15: every node's merge leaves the fields outside its own output set
\* unchanged, the output sets of the nodes are disjoint, and a field whose
\* node has run keeps its value for the rest of the run.
C15_Frame ==
  /\ [][/\ DOMAIN update' \subseteq Out(pc)
        /\ \A f \in Fields \ Out(pc) : state'[f] = state[f]
        /\ \A n \in Nodes : \A f \in Out(n) :
             Ran(n) => state'[f] = state[f]]_vars
  /\ [](\A m, n \in Nodes : m # n => Out(m) \cap Out(n) = {})

C15_Witness ==
  /\ pc = END
  /\ Len(trace) = 6
  /\ state.ingredients # <<>>
  /\ state.preferences # <<>>
  /\ Called(Diet) /\ ~FailedCall(Diet)
  /\ state.adjusted_recipe # state.generated_recipe

\* C19: every element of favorites is a non-empty string without the
\* marker; favorites changes only by storage_node appending the chosen
\* recipe text; and when the chosen text is empty or holds the marker,
\* storage_node returns favorites unchanged and user_notes "" without asking.
C19_FavoritesValid ==
  /\ [](\A i \in DOMAIN state.favorites :
          state.favorites[i] # <<>> /\ ~HasError(state.favorites[i]))
  /\ [][state'.favorites # state.favorites =>
          /\ pc = "StorageNode"
          /\ state'.favorites = Append(state.favorites, Val(Chosen(state)))]_vars
  /\ [][(pc = "StorageNode"
           /\ (Falsy(Chosen(state)) \/ HasError(Val(Chosen(state))))) =>
          /\ state'.favorites = state.favorites
          /\ state'.user_notes = Some(<<>>)
          /\ save' = None /\ notes' = None]_vars

C19_Witness ==
  /\ pc = END
  /\ Ran(Diet)
  /\ HasError(Val(Chosen(state)))
  /\ save = None
  /\ state.user_notes = Some(<<>>)
  /\ state.favorites = <<>>

\* C16: for every node other than StorageNode and fixed collaborator
\* answers, executing the node and merging its update a second time gives
\* the same field values as doing so once, whether the second execution
\* reads the same input record or the merged one; a second StorageNode can
\* differ only by appending to favorites again.
C16_MergeIdempotent ==
  /\ rerun.same = rerun.once
  /\ rerun.node # "StorageNode" => rerun.merged = rerun.once
  /\ rerun.node = "StorageNode" =>
       /\ \A f \in Fields \ {"favorites"} : rerun.merged[f] = rerun.once[f]
       /\ IsPrefix(rerun.once.favorites, rerun.merged.favorites)
  /\ rerun.node # "none" => rerun.once = state

C16_Witness ==
  /\ rerun.node = "DietAdjustmentNode"
  /\ Called(Diet) /\ ~FailedCall(Diet)
  /\ state.adjusted_recipe # state.generated_recipe
  /\ rerun.merged = state

====
